---- MODULE Spec2Model ----
(***************************************************************************)
(* A model of parts of gastown:                                            *)
(*   - the merge slot that serialises pushes to the main branch, as the    *)
(*     refinery's test double implements it (internal/beads/beads.go,      *)
(*     TestAcquireMainPushSlot_ConcurrentSingleWriter);                    *)
(*   - the session-name and address codecs and the prefix registry of      *)
(*     package session, the registry also step by step under its mutex;    *)
(*   - the merge slot's wait list, the agent bead IDs of package beads,    *)
(*     the steps of "gt wl post" and the patrol receipts of package        *)
(*     witness.                                                            *)
(* Strings that the codec takes apart are sequences of one-character       *)
(* strings, so that Index, HasPrefix and slicing are computed as the code  *)
(* computes them.                                                          *)
(***************************************************************************)
EXTENDS Integers, Sequences, FiniteSets, TLC

VARIABLES
    currentHolder,  \* the slot's holder token, "" when the slot is free
    holding,        \* workers between a successful acquire and its release
    lastCall,       \* the call that returned last, with what it returned
    round,          \* per worker: the acquire results since the slot was last free
    slotID,         \* per worker: the identifier EnsureExists returned to it
    prefixToRig,    \* registry: prefix -> rig
    rigToPrefix,    \* registry: rig -> prefix
    started,        \* startup (registration) is over
    session,        \* the string ParseSessionName was last called with
    identity,       \* what that call returned
    encoded,        \* what SessionName() returned for that identity
    reparsed,       \* what ParseSessionName returned for the encoded name
    regWriter,      \* the registry call that holds registryMu for writing, if any
    lastRegCall,    \* the registry call that returned in the last step, if any
    registered,     \* the (prefix, rig) pairs registered since the last clear
    subject,        \* an identity whose encodings are under test
    other,          \* a second identity, to compare its session name with
    address,        \* what subject.Address() returned
    addressed,      \* what ParseAddress returned for that address
    subjectName,    \* what subject.SessionName() returned
    otherName,      \* what other.SessionName() returned
    waiters,        \* the slot's wait list, oldest first
    beadArgs,       \* the rig, role and name an agent bead ID is built from
    beadID,         \* what AgentBeadID returned for them
    beadParsed,     \* what ParseAgentBeadID returned for that ID
    wlInput,        \* the flags of a "wl post" run
    wlPC,           \* where runWlPost is
    wlSteps,        \* the steps runWlPost has made, in order, with their outcome
    wlErr,          \* what runWlPost returned
    zombie,         \* the patrol result BuildPatrolReceipt was called with
    receipt         \* the receipt it returned

slotVars == <<currentHolder, holding, lastCall, round, slotID>>
codecVars == <<prefixToRig, rigToPrefix, started, session, identity, encoded, reparsed>>
lockVars == <<regWriter, lastRegCall, registered>>
identityVars == <<subject, other, address, addressed, subjectName, otherName>>
waiterVars == <<waiters>>
beadVars == <<beadArgs, beadID, beadParsed>>
wlVars == <<wlInput, wlPC, wlSteps, wlErr>>
patrolVars == <<zombie, receipt>>
vars ==
    <<slotVars, codecVars, lockVars, identityVars, waiterVars, beadVars, wlVars,
      patrolVars>>

\* What a step of one subsystem leaves alone.
toolVars == <<beadVars, wlVars, patrolVars>>
notSlotVars == <<codecVars, lockVars, identityVars, waiterVars, toolVars>>
notCodecVars == <<slotVars, lockVars, identityVars, waiterVars, toolVars>>
notIdentityVars == <<slotVars, codecVars, lockVars, waiterVars, toolVars>>
notWaiterVars == <<codecVars, lockVars, identityVars, toolVars>>
notBeadVars == <<slotVars, codecVars, lockVars, identityVars, waiterVars, wlVars, patrolVars>>
notWlVars == <<slotVars, codecVars, lockVars, identityVars, waiterVars, beadVars, patrolVars>>
notPatrolVars == <<slotVars, codecVars, lockVars, identityVars, waiterVars, beadVars, wlVars>>

(***************************************************************************)
(* Merge slot                                                              *)
(***************************************************************************)

\* Number of worker processes that contend for the slot.
NumWorkers == 3

Workers == 1..NumWorkers

\* Each worker presents its own, non-empty holder token.
HolderToken(w) == "refinery-" \o ToString(w)

MergeSlotID == "merge-slot"

ErrNone == "nil"
ErrHolderMismatch == "holder mismatch"

MergeSlotStatus(id, available, holder) ==
    [ID |-> id, Available |-> available, Holder |-> holder]

NoCall ==
    [op |-> "none", worker |-> 0, addWaiter |-> FALSE,
     status |-> MergeSlotStatus("", FALSE, ""), err |-> ErrNone]

EnsureCall(w, id) ==
    [op |-> "ensure", worker |-> w, addWaiter |-> FALSE,
     status |-> MergeSlotStatus(id, FALSE, ""), err |-> ErrNone]

AcquireCall(w, addWaiter, status) ==
    [op |-> "acquire", worker |-> w, addWaiter |-> addWaiter,
     status |-> status, err |-> ErrNone]

ReleaseCall(w, err) ==
    [op |-> "release", worker |-> w, addWaiter |-> FALSE,
     status |-> MergeSlotStatus("", FALSE, ""), err |-> err]

\* Mutant: the slot is granted without looking at the current holder.
AcquireResultNoCheck(cur, holder) ==
    [cur |-> holder, status |-> MergeSlotStatus(MergeSlotID, TRUE, holder)]

\* Mutant: a refused caller is told its own token instead of the holder's.
AcquireResultReportsCaller(cur, holder) ==
    IF cur = ""
    THEN [cur |-> holder, status |-> MergeSlotStatus(MergeSlotID, TRUE, holder)]
    ELSE [cur |-> cur, status |-> MergeSlotStatus(MergeSlotID, FALSE, holder)]

\* Mutant: a refused caller still overwrites the holder.
AcquireResultTakesOver(cur, holder) ==
    IF cur = ""
    THEN [cur |-> holder, status |-> MergeSlotStatus(MergeSlotID, TRUE, holder)]
    ELSE [cur |-> holder, status |-> MergeSlotStatus(MergeSlotID, FALSE, cur)]

\* Mutant: a free slot is granted only to the first waiter.
AcquireResultHonoursWaiters(cur, holder) ==
    IF cur = "" /\ (waiters = << >> \/ Head(waiters) = holder)
    THEN [cur |-> holder, status |-> MergeSlotStatus(MergeSlotID, TRUE, holder)]
    ELSE [cur |-> cur, status |-> MergeSlotStatus(MergeSlotID, FALSE, cur)]

\* Mutant: the holder's own token is let in again.
AcquireResultReentrant(cur, holder) ==
    IF cur = "" \/ cur = holder
    THEN [cur |-> holder, status |-> MergeSlotStatus(MergeSlotID, TRUE, holder)]
    ELSE [cur |-> cur, status |-> MergeSlotStatus(MergeSlotID, FALSE, cur)]

\* The body of mergeSlotAcquire under its mutex: the new holder and the status.
AcquireResult(cur, holder) ==
    IF cur = ""
    THEN [cur |-> holder, status |-> MergeSlotStatus(MergeSlotID, TRUE, holder)]
    ELSE [cur |-> cur, status |-> MergeSlotStatus(MergeSlotID, FALSE, cur)]

\* Mutant: release clears the slot whoever asks.
ReleaseResultNoCheck(cur, holder) ==
    [cur |-> "", err |-> ErrNone]

\* Mutant: a matching release reports success and keeps the holder.
ReleaseResultKeepsHolder(cur, holder) ==
    IF cur # holder
    THEN [cur |-> cur, err |-> ErrHolderMismatch]
    ELSE [cur |-> cur, err |-> ErrNone]

\* The body of mergeSlotRelease under its mutex: the new holder and the error.
ReleaseResult(cur, holder) ==
    IF cur # holder
    THEN [cur |-> cur, err |-> ErrHolderMismatch]
    ELSE [cur |-> "", err |-> ErrNone]

NoResults == [w \in Workers |-> {}]

SlotInit ==
    /\ currentHolder = ""
    /\ holding = {}
    /\ lastCall = NoCall
    /\ round = NoResults
    /\ slotID = [w \in Workers |-> ""]

\* Mutant: every caller is handed an identifier of its own.
mergeSlotEnsureExistsPerCaller(w) ==
    /\ slotID' = [slotID EXCEPT ![w] = MergeSlotID \o "-" \o ToString(w)]
    /\ lastCall' = EnsureCall(w, slotID'[w])
    /\ UNCHANGED <<currentHolder, holding, round>>
    /\ UNCHANGED notSlotVars

\* Worker w calls mergeSlotEnsureExists: it is handed the fixed identifier.
mergeSlotEnsureExists(w) ==
    /\ slotID' = [slotID EXCEPT ![w] = MergeSlotID]
    /\ lastCall' = EnsureCall(w, MergeSlotID)
    /\ UNCHANGED <<currentHolder, holding, round>>
    /\ UNCHANGED notSlotVars

\* Worker w calls mergeSlotAcquire(HolderToken(w), addWaiter).  The mutex makes
\* the body one step; a worker that is granted the slot enters its critical
\* section (tryAcquire goes on to sleep and release).
mergeSlotAcquire(w, addWaiter) ==
    LET r == AcquireResult(currentHolder, HolderToken(w)) IN
    /\ currentHolder' = r.cur
    /\ lastCall' = AcquireCall(w, addWaiter, r.status)
    /\ holding' = IF r.status.Available THEN holding \cup {w} ELSE holding
    /\ round' = [round EXCEPT ![w] = @ \cup {r.status}]
    /\ UNCHANGED slotID
    /\ UNCHANGED notSlotVars

\* Worker w calls mergeSlotRelease(HolderToken(w)).  A release that succeeds
\* ends the worker's critical section and the round of acquires that began
\* when the slot was last free.
mergeSlotRelease(w) ==
    LET r == ReleaseResult(currentHolder, HolderToken(w)) IN
    /\ currentHolder' = r.cur
    /\ lastCall' = ReleaseCall(w, r.err)
    /\ holding' = IF r.err = ErrNone THEN holding \ {w} ELSE holding
    /\ round' = IF r.err = ErrNone THEN NoResults ELSE round
    /\ UNCHANGED slotID
    /\ UNCHANGED notSlotVars

SlotNext ==
    \E w \in Workers :
        \/ mergeSlotEnsureExists(w)
        \/ \E addWaiter \in BOOLEAN : mergeSlotAcquire(w, addWaiter)
        \/ mergeSlotRelease(w)

\* The longest wait list the model follows.
MaxWaiters == 2

\* beads.MergeSlotAcquire, the store-backed function the refinery calls when
\* it is not stubbed: the outcome is the one of mergeSlotAcquire, and a
\* refused caller that asked for it is put at the end of the wait list.
MergeSlotAcquire(w, addWaiter) ==
    LET r == AcquireResult(currentHolder, HolderToken(w)) IN
    /\ (addWaiter /\ ~r.status.Available) => Len(waiters) < MaxWaiters
    /\ currentHolder' = r.cur
    /\ lastCall' = AcquireCall(w, addWaiter, r.status)
    /\ holding' = IF r.status.Available THEN holding \cup {w} ELSE holding
    /\ waiters' = IF addWaiter /\ ~r.status.Available
                  THEN Append(waiters, HolderToken(w))
                  ELSE waiters
    /\ UNCHANGED <<round, slotID>>
    /\ UNCHANGED notWaiterVars

WaiterNext ==
    \E w \in Workers :
        \/ \E addWaiter \in BOOLEAN : MergeSlotAcquire(w, addWaiter)
        \/ mergeSlotRelease(w)

(***************************************************************************)
(* Strings as the codec sees them                                          *)
(***************************************************************************)

Hyphen == "-"

wEmpty == << >>
wHQ == <<"h", "q">>
wGT == <<"g", "t">>
wXYZ == <<"x", "y", "z">>
wCrew == <<"c", "r", "e", "w">>
wWitness == <<"w", "i", "t", "n", "e", "s", "s">>
wRefinery == <<"r", "e", "f", "i", "n", "e", "r", "y">>
wBoot == <<"b", "o", "o", "t">>
wMayor == <<"m", "a", "y", "o", "r">>
wDeacon == <<"d", "e", "a", "c", "o", "n">>
wOverseer == <<"o", "v", "e", "r", "s", "e", "e", "r">>
wMax == <<"m", "a", "x">>
wGastown == <<"g", "a", "s", "t", "o", "w", "n">>
wBeads == <<"b", "e", "a", "d", "s">>
wBD == <<"b", "d">>
wPolecats == <<"p", "o", "l", "e", "c", "a", "t", "s">>

\* strings.HasPrefix
HasPrefix(s, p) == Len(s) >= Len(p) /\ SubSeq(s, 1, Len(p)) = p

\* strings.TrimPrefix
TrimPrefix(s, p) == IF HasPrefix(s, p) THEN SubSeq(s, Len(p) + 1, Len(s)) ELSE s

\* Mutant: the place of the last c in s instead of the first.
IndexLast(s, c) ==
    IF \E i \in 1..Len(s) : s[i] = c
    THEN (CHOOSE i \in 1..Len(s) :
              s[i] = c /\ \A j \in (i + 1)..Len(s) : s[j] # c) - 1
    ELSE -1

\* strings.Index(s, c) for a one-character c: the 0-based place of the first
\* c in s, or -1.
Index(s, c) ==
    IF \E i \in 1..Len(s) : s[i] = c
    THEN (CHOOSE i \in 1..Len(s) :
              s[i] = c /\ \A j \in 1..(i - 1) : s[j] # c) - 1
    ELSE -1

Slash == "/"

\* The characters strings.TrimSpace strips that an address under test can hold.
Whitespace == {" "}

\* strings.TrimSpace
TrimSpace(s) ==
    LET keep == {i \in 1..Len(s) : s[i] \notin Whitespace} IN
    IF keep = {} THEN << >>
    ELSE SubSeq(s, CHOOSE i \in keep : \A j \in keep : i <= j,
                   CHOOSE i \in keep : \A j \in keep : i >= j)

\* strings.HasSuffix
HasSuffix(s, p) == Len(s) >= Len(p) /\ SubSeq(s, Len(s) - Len(p) + 1, Len(s)) = p

\* strings.TrimSuffix
TrimSuffix(s, p) == IF HasSuffix(s, p) THEN SubSeq(s, 1, Len(s) - Len(p)) ELSE s

\* Mutant: empty stretches are dropped, as strings.FieldsFunc would.
RECURSIVE SplitDropsEmpty(_, _)
SplitDropsEmpty(s, c) ==
    LET i == Index(s, c) IN
    IF i < 0 THEN (IF s = << >> THEN << >> ELSE <<s>>)
    ELSE (IF i = 0 THEN << >> ELSE <<SubSeq(s, 1, i)>>)
             \o SplitDropsEmpty(SubSeq(s, i + 2, Len(s)), c)

\* strings.Split(s, c) for a one-character c: the stretches between the c's.
RECURSIVE Split(_, _)
Split(s, c) ==
    LET i == Index(s, c) IN
    IF i < 0 THEN <<s>>
    ELSE <<SubSeq(s, 1, i)>> \o Split(SubSeq(s, i + 2, Len(s)), c)

\* The parts joined with hyphens, as a session name is written.
RECURSIVE JoinHyphen(_)
JoinHyphen(parts) ==
    IF Len(parts) = 0 THEN << >>
    ELSE IF Len(parts) = 1 THEN parts[1]
    ELSE parts[1] \o <<Hyphen>> \o JoinHyphen(Tail(parts))

(***************************************************************************)
(* Prefix registry                                                         *)
(***************************************************************************)

\* A Go map read: the value, or "" for a key that is not in the map.
MapGet(m, k) == IF k \in DOMAIN m THEN m[k] ELSE << >>

\* A Go map write.
MapSet(m, k, v) == [x \in DOMAIN m \cup {k} |-> IF x = k THEN v ELSE m[x]]

EmptyMap == << >>

PrefixForRig(rigName) == MapGet(rigToPrefix, rigName)

\* Mutant: a prefix that is not registered is taken for the rig's name.
RigForPrefixEchoesKey(prefix) ==
    IF prefix \in DOMAIN prefixToRig THEN prefixToRig[prefix] ELSE prefix

RigForPrefix(prefix) == MapGet(prefixToRig, prefix)

IsKnownPrefix(prefix) == prefix \in DOMAIN prefixToRig

\* Every order in which a range over a Go map can visit the keys in S.
Orderings(S) ==
    {f \in [1..Cardinality(S) -> S] : \A i, j \in 1..Cardinality(S) : f[i] = f[j] => i = j}

\* registryMu held for writing: the call that holds it and how far it has got
\* ("locked": nothing assigned yet, "half": the first map assigned).
NoWriter == [op |-> "none", prefix |-> << >>, rig |-> << >>, stage |-> "none"]
Writer(op, prefix, rigName, stage) ==
    [op |-> op, prefix |-> prefix, rig |-> rigName, stage |-> stage]

\* What a registry call returned: str for the string-valued lookups (and the
\* rig of a RegisterPrefix), known for IsKnownPrefix, list for
\* AllRegisteredPrefixes.
RegReturn(fn, key, str, known, list) ==
    [fn |-> fn, key |-> key, str |-> str, known |-> known, list |-> list]
NoRegCall == RegReturn("none", << >>, << >>, FALSE, << >>)

LookupFns == {"RigForPrefix", "PrefixForRig", "IsKnownPrefix", "AllRegisteredPrefixes"}

RegistryIdle ==
    /\ regWriter = NoWriter
    /\ lastRegCall = NoRegCall
    /\ registered = {}

\* registryMu.Lock() goes through when nobody holds the mutex.
CanLock(w) == w.op = "none"

\* Mutant: readers do not wait for a writer.
CanRLockAlways(w) == TRUE

\* registryMu.RLock() goes through when no writer holds the mutex.
CanRLock(w) == w.op = "none"

\* What the steps of the registry leave alone.
notRegistryVars ==
    <<slotVars, identityVars, waiterVars, toolVars, started, session, identity,
      encoded, reparsed>>

\* RegisterPrefix(prefix, rigName), step by step: take the write lock,
RegisterPrefixLock(prefix, rigName) ==
    /\ CanLock(regWriter)
    /\ regWriter' = Writer("RegisterPrefix", prefix, rigName, "locked")
    /\ lastRegCall' = NoRegCall
    /\ UNCHANGED <<prefixToRig, rigToPrefix, registered>>
    /\ UNCHANGED notRegistryVars

\* assign prefixToRig[prefix],
RegisterPrefixWritePrefix ==
    /\ regWriter.op = "RegisterPrefix"
    /\ regWriter.stage = "locked"
    /\ prefixToRig' = MapSet(prefixToRig, regWriter.prefix, regWriter.rig)
    /\ regWriter' = [regWriter EXCEPT !.stage = "half"]
    /\ lastRegCall' = NoRegCall
    /\ UNCHANGED <<rigToPrefix, registered>>
    /\ UNCHANGED notRegistryVars

\* assign rigToPrefix[rigName] and return (the deferred unlock).
RegisterPrefixWriteRig ==
    /\ regWriter.op = "RegisterPrefix"
    /\ regWriter.stage = "half"
    /\ rigToPrefix' = MapSet(rigToPrefix, regWriter.rig, regWriter.prefix)
    /\ regWriter' = NoWriter
    /\ lastRegCall' =
           RegReturn("RegisterPrefix", regWriter.prefix, regWriter.rig, FALSE, << >>)
    /\ registered' = registered \cup {<<regWriter.prefix, regWriter.rig>>}
    /\ UNCHANGED prefixToRig
    /\ UNCHANGED notRegistryVars

\* ClearRegistry(), step by step: take the write lock,
ClearRegistryLock ==
    /\ CanLock(regWriter)
    /\ regWriter' = Writer("ClearRegistry", << >>, << >>, "locked")
    /\ lastRegCall' = NoRegCall
    /\ UNCHANGED <<prefixToRig, rigToPrefix, registered>>
    /\ UNCHANGED notRegistryVars

\* replace prefixToRig by an empty map,
ClearRegistryWritePrefix ==
    /\ regWriter.op = "ClearRegistry"
    /\ regWriter.stage = "locked"
    /\ prefixToRig' = EmptyMap
    /\ regWriter' = [regWriter EXCEPT !.stage = "half"]
    /\ lastRegCall' = NoRegCall
    /\ UNCHANGED <<rigToPrefix, registered>>
    /\ UNCHANGED notRegistryVars

\* Mutant: ClearRegistry leaves rigToPrefix as it is.
ClearRegistryKeepsRigs ==
    /\ regWriter.op = "ClearRegistry"
    /\ regWriter.stage = "half"
    /\ regWriter' = NoWriter
    /\ lastRegCall' = RegReturn("ClearRegistry", << >>, << >>, FALSE, << >>)
    /\ registered' = {}
    /\ UNCHANGED <<prefixToRig, rigToPrefix>>
    /\ UNCHANGED notRegistryVars

\* replace rigToPrefix by an empty map and return.
ClearRegistryWriteRig ==
    /\ regWriter.op = "ClearRegistry"
    /\ regWriter.stage = "half"
    /\ rigToPrefix' = EmptyMap
    /\ regWriter' = NoWriter
    /\ lastRegCall' = RegReturn("ClearRegistry", << >>, << >>, FALSE, << >>)
    /\ registered' = {}
    /\ UNCHANGED prefixToRig
    /\ UNCHANGED notRegistryVars

\* The lookups run under the read lock, which keeps writers out from the
\* RLock to the return: each is one step.
RigForPrefixCall(prefix) ==
    /\ CanRLock(regWriter)
    /\ lastRegCall' = RegReturn("RigForPrefix", prefix, RigForPrefix(prefix), FALSE, << >>)
    /\ UNCHANGED <<prefixToRig, rigToPrefix, regWriter, registered>>
    /\ UNCHANGED notRegistryVars

PrefixForRigCall(rigName) ==
    /\ CanRLock(regWriter)
    /\ lastRegCall' = RegReturn("PrefixForRig", rigName, PrefixForRig(rigName), FALSE, << >>)
    /\ UNCHANGED <<prefixToRig, rigToPrefix, regWriter, registered>>
    /\ UNCHANGED notRegistryVars

IsKnownPrefixCall(prefix) ==
    /\ CanRLock(regWriter)
    /\ lastRegCall' = RegReturn("IsKnownPrefix", prefix, << >>, IsKnownPrefix(prefix), << >>)
    /\ UNCHANGED <<prefixToRig, rigToPrefix, regWriter, registered>>
    /\ UNCHANGED notRegistryVars

\* Mutant: the prefixes are collected from the values of rigToPrefix.
AllRegisteredPrefixesFromRigs ==
    /\ CanRLock(regWriter)
    /\ \E list \in Orderings({rigToPrefix[r] : r \in DOMAIN rigToPrefix}) :
           lastRegCall' = RegReturn("AllRegisteredPrefixes", << >>, << >>, FALSE, list)
    /\ UNCHANGED <<prefixToRig, rigToPrefix, regWriter, registered>>
    /\ UNCHANGED notRegistryVars

\* AllRegisteredPrefixes: the keys of prefixToRig, in the order the range
\* over the map happens to visit them.
AllRegisteredPrefixes ==
    /\ CanRLock(regWriter)
    /\ \E list \in Orderings(DOMAIN prefixToRig) :
           lastRegCall' = RegReturn("AllRegisteredPrefixes", << >>, << >>, FALSE, list)
    /\ UNCHANGED <<prefixToRig, rigToPrefix, regWriter, registered>>
    /\ UNCHANGED notRegistryVars

(***************************************************************************)
(* Identity codec                                                          *)
(***************************************************************************)

RoleMayor == "mayor"
RoleDeacon == "deacon"
RoleWitness == "witness"
RoleRefinery == "refinery"
RoleCrew == "crew"
RolePolecat == "polecat"

AgentIdentity(role, rig, name, prefix) ==
    [Role |-> role, Rig |-> rig, Name |-> name, Prefix |-> prefix]

NilIdentity == AgentIdentity("", << >>, << >>, << >>)

\* What ParseSessionName returns: an identity and a nil error, or nil and an error.
ParseOK(id) == [called |-> TRUE, ok |-> TRUE, id |-> id, err |-> ""]
ParseErr(err) == [called |-> TRUE, ok |-> FALSE, id |-> NilIdentity, err |-> err]
NotParsed == [called |-> FALSE, ok |-> FALSE, id |-> NilIdentity, err |-> ""]

NotEncoded == [called |-> FALSE, name |-> << >>]
Encoded(name) == [called |-> TRUE, name |-> name]

\* The names of package session that the codec builds on.
HQPrefix == wHQ \o <<Hyphen>>
MayorSessionName == HQPrefix \o wMayor
DeaconSessionName == HQPrefix \o wDeacon
BootSessionName == HQPrefix \o wBoot
WitnessSessionName(rigPrefix) == rigPrefix \o <<Hyphen>> \o wWitness
RefinerySessionName(rigPrefix) == rigPrefix \o <<Hyphen>> \o wRefinery
CrewSessionName(rigPrefix, name) ==
    rigPrefix \o <<Hyphen>> \o wCrew \o <<Hyphen>> \o name
PolecatSessionName(rigPrefix, name) == rigPrefix \o <<Hyphen>> \o name

CrewMarker == wCrew \o <<Hyphen>>

\* Mutant: an empty prefix, an empty remainder and an empty crew name are
\* let through.
ParseRigSessionLenient(sess) ==
    LET idx == Index(sess, Hyphen) IN
    IF idx < 0
    THEN ParseErr("no prefix-role separator")
    ELSE
        LET prefix == SubSeq(sess, 1, idx)
            rest == SubSeq(sess, idx + 2, Len(sess))
            rigName == RigForPrefix(prefix)
        IN  IF rest = wWitness
            THEN ParseOK(AgentIdentity(RoleWitness, rigName, << >>, prefix))
            ELSE IF rest = wRefinery
            THEN ParseOK(AgentIdentity(RoleRefinery, rigName, << >>, prefix))
            ELSE IF rest = wBoot
            THEN ParseOK(AgentIdentity(RoleDeacon, << >>, wBoot, prefix))
            ELSE IF HasPrefix(rest, CrewMarker)
            THEN ParseOK(AgentIdentity(RoleCrew, rigName, SubSeq(rest, 6, Len(rest)), prefix))
            ELSE ParseOK(AgentIdentity(RolePolecat, rigName, rest, prefix))

\* The rig-level half of ParseSessionName: <prefix>-<rest>.
ParseRigSession(sess) ==
    LET idx == Index(sess, Hyphen) IN
    IF idx <= 0 \/ idx = Len(sess) - 1
    THEN ParseErr("no prefix-role separator")
    ELSE
        LET prefix == SubSeq(sess, 1, idx)
            rest == SubSeq(sess, idx + 2, Len(sess))
            rigName == RigForPrefix(prefix)
        IN  IF rest = wWitness
            THEN ParseOK(AgentIdentity(RoleWitness, rigName, << >>, prefix))
            ELSE IF rest = wRefinery
            THEN ParseOK(AgentIdentity(RoleRefinery, rigName, << >>, prefix))
            ELSE IF rest = wBoot
            THEN ParseOK(AgentIdentity(RoleDeacon, << >>, wBoot, prefix))
            ELSE IF HasPrefix(rest, CrewMarker)
            THEN LET name == SubSeq(rest, 6, Len(rest)) IN
                 IF name = << >>
                 THEN ParseErr("empty crew name")
                 ELSE ParseOK(AgentIdentity(RoleCrew, rigName, name, prefix))
            ELSE IF rest = << >>
            THEN ParseErr("empty name after prefix")
            ELSE ParseOK(AgentIdentity(RolePolecat, rigName, rest, prefix))

\* Mutant: "hq" is looked up in the registry first, and a registered "hq" is
\* parsed as a rig's prefix.
ParseSessionNameRegistryFirst(sess) ==
    IF HasPrefix(sess, HQPrefix) /\ ~IsKnownPrefix(wHQ)
    THEN LET suffix == TrimPrefix(sess, HQPrefix) IN
         IF suffix = wMayor
         THEN ParseOK(AgentIdentity(RoleMayor, << >>, << >>, << >>))
         ELSE IF suffix = wDeacon
         THEN ParseOK(AgentIdentity(RoleDeacon, << >>, << >>, << >>))
         ELSE IF suffix = wBoot
         THEN ParseOK(AgentIdentity(RoleDeacon, << >>, wBoot, << >>))
         ELSE IF suffix = wOverseer
         THEN ParseOK(AgentIdentity(RoleMayor, << >>, wOverseer, << >>))
         ELSE ParseErr("unknown hq- role")
    ELSE ParseRigSession(sess)

\* ParseSessionName: the town-level names first, then the rig-level ones.
ParseSessionName(sess) ==
    IF HasPrefix(sess, HQPrefix)
    THEN LET suffix == TrimPrefix(sess, HQPrefix) IN
         IF suffix = wMayor
         THEN ParseOK(AgentIdentity(RoleMayor, << >>, << >>, << >>))
         ELSE IF suffix = wDeacon
         THEN ParseOK(AgentIdentity(RoleDeacon, << >>, << >>, << >>))
         ELSE IF suffix = wBoot
         THEN ParseOK(AgentIdentity(RoleDeacon, << >>, wBoot, << >>))
         ELSE IF suffix = wOverseer
         THEN ParseOK(AgentIdentity(RoleMayor, << >>, wOverseer, << >>))
         ELSE ParseErr("unknown hq- role")
    ELSE ParseRigSession(sess)

\* Mutant: the registry is asked first and the identity's own prefix is the
\* fallback.
rigPrefixRegistryFirst(a) ==
    IF a.Rig # << >> /\ PrefixForRig(a.Rig) # << >> THEN PrefixForRig(a.Rig)
    ELSE a.Prefix

\* AgentIdentity.rigPrefix: the identity's own prefix, else the registry's.
rigPrefix(a) ==
    IF a.Prefix # << >> THEN a.Prefix
    ELSE IF a.Rig # << >> /\ PrefixForRig(a.Rig) # << >> THEN PrefixForRig(a.Rig)
    ELSE << >>

\* AgentIdentity.SessionName
SessionName(a) ==
    IF a.Role = RoleMayor THEN MayorSessionName
    ELSE IF a.Role = RoleDeacon
    THEN (IF a.Name = wBoot THEN BootSessionName ELSE DeaconSessionName)
    ELSE IF a.Role = RoleWitness THEN WitnessSessionName(rigPrefix(a))
    ELSE IF a.Role = RoleRefinery THEN RefinerySessionName(rigPrefix(a))
    ELSE IF a.Role = RoleCrew THEN CrewSessionName(rigPrefix(a), a.Name)
    ELSE IF a.Role = RolePolecat THEN PolecatSessionName(rigPrefix(a), a.Name)
    ELSE << >>

\* ParseAddress
ParseAddress(addr) ==
    LET trimmed == TrimSpace(addr) IN
    IF trimmed = << >> THEN ParseErr("empty address")
    ELSE IF trimmed = wMayor \/ trimmed = wMayor \o <<Slash>>
    THEN ParseOK(AgentIdentity(RoleMayor, << >>, << >>, << >>))
    ELSE IF trimmed = wDeacon \/ trimmed = wDeacon \o <<Slash>>
    THEN ParseOK(AgentIdentity(RoleDeacon, << >>, << >>, << >>))
    ELSE IF trimmed = wOverseer THEN ParseErr("overseer has no session")
    ELSE
        LET parts == Split(TrimSuffix(trimmed, <<Slash>>), Slash) IN
        IF Len(parts) < 2 THEN ParseErr("invalid address")
        ELSE
            LET rig == parts[1]
                prefix == PrefixForRig(rig)
            IN  IF Len(parts) = 2
                THEN LET name == parts[2] IN
                     IF name = wWitness
                     THEN ParseOK(AgentIdentity(RoleWitness, rig, << >>, prefix))
                     ELSE IF name = wRefinery
                     THEN ParseOK(AgentIdentity(RoleRefinery, rig, << >>, prefix))
                     ELSE IF name = wCrew \/ name = wPolecats
                     THEN ParseErr("invalid address")
                     ELSE ParseOK(AgentIdentity(RolePolecat, rig, name, prefix))
                ELSE IF Len(parts) = 3
                THEN LET role == parts[2]
                         name == parts[3]
                     IN  IF role = wCrew
                         THEN ParseOK(AgentIdentity(RoleCrew, rig, name, prefix))
                         ELSE IF role = wPolecats
                         THEN ParseOK(AgentIdentity(RolePolecat, rig, name, prefix))
                         ELSE ParseErr("invalid address")
                ELSE ParseErr("invalid address")

\* AgentIdentity.Address
Address(a) ==
    IF a.Role = RoleMayor THEN wMayor
    ELSE IF a.Role = RoleDeacon THEN wDeacon
    ELSE IF a.Role = RoleWitness THEN a.Rig \o <<Slash>> \o wWitness
    ELSE IF a.Role = RoleRefinery THEN a.Rig \o <<Slash>> \o wRefinery
    ELSE IF a.Role = RoleCrew
    THEN a.Rig \o <<Slash>> \o wCrew \o <<Slash>> \o a.Name
    ELSE IF a.Role = RolePolecat
    THEN a.Rig \o <<Slash>> \o wPolecats \o <<Slash>> \o a.Name
    ELSE << >>

\* The most hyphen-separated parts a session name under test is made of.
MaxParts == 4

\* The words the first two parts of a session name under test are drawn
\* from: the reserved words, registered and unregistered prefixes, a plain
\* name and the empty string.
Words ==
    {wEmpty, wHQ, wGT, wXYZ, wCrew, wWitness, wRefinery, wBoot, wMayor,
     wDeacon, wOverseer, wMax}

\* The words its further parts are drawn from (they can only be part of a name).
TailWords == {wEmpty, wCrew, wWitness, wMax}

SessionInputs ==
    {JoinHyphen(<<w>>) : w \in Words}
    \cup {JoinHyphen(head \o tail) :
              head \in [1..2 -> Words],
              tail \in UNION {[1..n -> TailWords] : n \in 0..(MaxParts - 2)}}

\* The prefixes and rigs the rig configuration registers at startup.
ConfigPrefixes == {wGT, wHQ}
ConfigRigs == {wGastown}

\* Nothing has been asked of the slot's wait list, the agent bead IDs,
\* "wl post" or the patrol receipts.
NoBeadArgs == [rig |-> << >>, role |-> << >>, name |-> << >>]
NoBeadParse == [called |-> FALSE, rig |-> << >>, role |-> << >>, name |-> << >>, ok |-> FALSE]
\* The flags of "wl post" hold their defaults.
NoWlInput == [type |-> "feature", effort |-> "medium", priority |-> 2, dryRun |-> FALSE]
NoZombie ==
    [PolecatName |-> "", AgentState |-> "", HookBead |-> << >>, Action |-> << >>,
     BeadRecovered |-> FALSE, Error |-> ""]
NoReceipt ==
    [called |-> FALSE, Rig |-> "", Polecat |-> "", Verdict |-> "",
     RecommendedAction |-> << >>,
     Evidence |-> [AgentState |-> "", HookBead |-> << >>, BeadRecovered |-> FALSE,
                   Error |-> ""]]

ToolsIdle ==
    /\ waiters = << >>
    /\ beadArgs = NoBeadArgs
    /\ beadID = NotEncoded
    /\ beadParsed = NoBeadParse
    /\ wlInput = NoWlInput
    /\ wlPC = "idle"
    /\ wlSteps = << >>
    /\ wlErr = ""
    /\ zombie = NoZombie
    /\ receipt = NoReceipt

IdentityIdle ==
    /\ subject = NilIdentity
    /\ other = NilIdentity
    /\ address = NotEncoded
    /\ addressed = NotParsed
    /\ subjectName = NotEncoded
    /\ otherName = NotEncoded

CodecIdle ==
    /\ prefixToRig = EmptyMap
    /\ rigToPrefix = EmptyMap
    /\ started = FALSE
    /\ session = << >>
    /\ identity = NotParsed
    /\ encoded = NotEncoded
    /\ reparsed = NotParsed

\* RegisterPrefix, called at startup before any session name is parsed.
RegisterPrefix(prefix, rigName) ==
    /\ ~started
    /\ prefixToRig' = MapSet(prefixToRig, prefix, rigName)
    /\ rigToPrefix' = MapSet(rigToPrefix, rigName, prefix)
    /\ UNCHANGED <<started, session, identity, encoded, reparsed>>
    /\ UNCHANGED notCodecVars

\* ClearRegistry
ClearRegistry ==
    /\ ~started
    /\ prefixToRig' = EmptyMap
    /\ rigToPrefix' = EmptyMap
    /\ UNCHANGED <<started, session, identity, encoded, reparsed>>
    /\ UNCHANGED notCodecVars

\* Startup is over: from here on session names are parsed and built.
FinishStartup ==
    /\ ~started
    /\ started' = TRUE
    /\ UNCHANGED <<prefixToRig, rigToPrefix, session, identity, encoded, reparsed>>
    /\ UNCHANGED notCodecVars

\* identity, err := ParseSessionName(sess), the first step of a round trip
\* (TestParseSessionName_RoundTrip runs one round trip per session name).
ParseSessionNameCall(sess) ==
    /\ started
    /\ ~identity.called
    /\ session' = sess
    /\ identity' = ParseSessionName(sess)
    /\ encoded' = NotEncoded
    /\ reparsed' = NotParsed
    /\ UNCHANGED <<prefixToRig, rigToPrefix, started>>
    /\ UNCHANGED notCodecVars

\* identity.SessionName(), on the identity the parse returned.
SessionNameCall ==
    /\ started
    /\ identity.ok
    /\ ~encoded.called
    /\ encoded' = Encoded(SessionName(identity.id))
    /\ UNCHANGED <<prefixToRig, rigToPrefix, started, session, identity, reparsed>>
    /\ UNCHANGED notCodecVars

\* ParseSessionName again, on the name SessionName() returned.
ReparseCall ==
    /\ started
    /\ encoded.called
    /\ ~reparsed.called
    /\ reparsed' = ParseSessionName(encoded.name)
    /\ UNCHANGED <<prefixToRig, rigToPrefix, started, session, identity, encoded>>
    /\ UNCHANGED notCodecVars

\* A round trip starts with one of the session names under test.
StartRoundTrip ==
    /\ ~identity.called
    /\ \E sess \in SessionInputs : ParseSessionNameCall(sess)

CodecNext ==
    \/ \E prefix \in ConfigPrefixes, rigName \in ConfigRigs :
           RegisterPrefix(prefix, rigName)
    \/ ClearRegistry
    \/ FinishStartup
    \/ StartRoundTrip
    \/ SessionNameCall
    \/ ReparseCall

\* The state a codec run starts in: an empty registry, an untouched slot.
CodecSpecInit ==
    CodecIdle /\ SlotInit /\ RegistryIdle /\ IdentityIdle /\ ToolsIdle

CodecSpec == CodecSpecInit /\ [][CodecNext]_vars

(***************************************************************************)
(* Identities built by the caller: Address, ParseAddress, SessionName      *)
(***************************************************************************)

wCrewMax == wCrew \o <<Hyphen>> \o wMax

\* The rigs, names and prefixes of the identities under test: a registered
\* and an unregistered rig; a plain name, a hyphenated name and a name that
\* is also a role word; no prefix, a registered and an unregistered prefix.
IdentityRigs == {wGastown, wBeads}
IdentityNames == {wMax, wCrewMax, wWitness}
IdentityPrefixes == {wEmpty, wGT, wXYZ}

\* The identities the data model allows: town-level roles have no rig and no
\* prefix, and a name only for the boot watchdog and the overseer; witness
\* and refinery have a rig and no name; crew and polecats have a rig and a
\* name.
Identities ==
    {AgentIdentity(RoleMayor, << >>, n, << >>) : n \in {wEmpty, wOverseer}}
    \cup {AgentIdentity(RoleDeacon, << >>, n, << >>) : n \in {wEmpty, wBoot}}
    \cup {AgentIdentity(role, rig, << >>, prefix) :
              role \in {RoleWitness, RoleRefinery},
              rig \in IdentityRigs, prefix \in IdentityPrefixes}
    \cup {AgentIdentity(role, rig, n, prefix) :
              role \in {RoleCrew, RolePolecat},
              rig \in IdentityRigs, n \in IdentityNames, prefix \in IdentityPrefixes}

\* The caller builds the identity under test,
NewSubject(x) ==
    /\ subject' = x
    /\ UNCHANGED <<other, address, addressed, subjectName, otherName>>
    /\ UNCHANGED notIdentityVars

ChooseSubject ==
    /\ started
    /\ subject = NilIdentity
    /\ \E x \in Identities : NewSubject(x)

\* and a second one to compare it with.
NewOther(y) ==
    /\ other' = y
    /\ UNCHANGED <<subject, address, addressed, subjectName, otherName>>
    /\ UNCHANGED notIdentityVars

ChooseOther ==
    /\ subject # NilIdentity
    /\ other = NilIdentity
    /\ \E y \in Identities : NewOther(y)

\* subject.Address()
AddressCall ==
    /\ subject # NilIdentity
    /\ ~address.called
    /\ address' = Encoded(Address(subject))
    /\ UNCHANGED <<subject, other, addressed, subjectName, otherName>>
    /\ UNCHANGED notIdentityVars

\* ParseAddress, on the address Address() returned.
ParseAddressCall ==
    /\ address.called
    /\ ~addressed.called
    /\ addressed' = ParseAddress(address.name)
    /\ UNCHANGED <<subject, other, address, subjectName, otherName>>
    /\ UNCHANGED notIdentityVars

\* subject.SessionName()
SubjectSessionNameCall ==
    /\ subject # NilIdentity
    /\ ~subjectName.called
    /\ subjectName' = Encoded(SessionName(subject))
    /\ UNCHANGED <<subject, other, address, addressed, otherName>>
    /\ UNCHANGED notIdentityVars

\* other.SessionName()
OtherSessionNameCall ==
    /\ other # NilIdentity
    /\ ~otherName.called
    /\ otherName' = Encoded(SessionName(other))
    /\ UNCHANGED <<subject, other, address, addressed, subjectName>>
    /\ UNCHANGED notIdentityVars

IdentityNext ==
    \/ \E prefix \in ConfigPrefixes, rigName \in ConfigRigs :
           RegisterPrefix(prefix, rigName)
    \/ ClearRegistry
    \/ FinishStartup
    \/ ChooseSubject
    \/ ChooseOther
    \/ AddressCall
    \/ ParseAddressCall
    \/ SubjectSessionNameCall
    \/ OtherSessionNameCall

\* The state an identity run starts in.
IdentitySpecInit ==
    IdentityIdle /\ CodecIdle /\ SlotInit /\ RegistryIdle /\ ToolsIdle

IdentitySpec == IdentitySpecInit /\ [][IdentityNext]_vars

(***************************************************************************)
(* Addresses given by the caller, and the two encodings together          *)
(***************************************************************************)

\* The parts joined with slashes, as an address is written.
RECURSIVE JoinSlash(_)
JoinSlash(parts) ==
    IF Len(parts) = 0 THEN << >>
    ELSE IF Len(parts) = 1 THEN parts[1]
    ELSE parts[1] \o <<Slash>> \o JoinSlash(Tail(parts))

\* The most slash-separated segments an address under test is made of.
MaxSegments == 4

\* The words the first segment of an address under test is drawn from (a
\* registered and an unregistered rig, the town-level words, nothing), and
\* the words of its further segments (the role words, a name, nothing).
RigWords == {wEmpty, wGastown, wBeads, wMayor, wDeacon, wOverseer}
SegmentWords == {wEmpty, wWitness, wRefinery, wCrew, wPolecats, wMax}

\* The addresses under test; those of one or two segments also with a blank
\* on either side.
AddressInputs ==
    {JoinSlash(<<rig>> \o rest) :
         rig \in RigWords,
         rest \in UNION {[1..n -> SegmentWords] : n \in 0..(MaxSegments - 1)}}
    \cup {<<" ">> \o JoinSlash(<<rig>> \o rest) \o <<" ">> :
              rig \in RigWords,
              rest \in UNION {[1..n -> SegmentWords] : n \in 0..1}}

\* The caller hands ParseAddress an address of its own.
NewAddress(a) ==
    /\ address' = Encoded(a)
    /\ UNCHANGED <<subject, other, addressed, subjectName, otherName>>
    /\ UNCHANGED notIdentityVars

GivenAddress ==
    /\ started
    /\ ~identity.called
    /\ ~address.called
    /\ \E a \in AddressInputs : NewAddress(a)

\* A session name is parsed, unless an address is already under test.
SessionFirst ==
    /\ ~address.called
    /\ StartRoundTrip

\* identity.Address(), on the identity ParseSessionName returned.
IdentityAddressCall ==
    /\ identity.ok
    /\ ~address.called
    /\ address' = Encoded(Address(identity.id))
    /\ UNCHANGED <<subject, other, addressed, subjectName, otherName>>
    /\ UNCHANGED notIdentityVars

\* SessionName(), on the identity ParseAddress returned for a given address.
AddressedSessionNameCall ==
    /\ ~identity.called
    /\ addressed.ok
    /\ ~encoded.called
    /\ encoded' = Encoded(SessionName(addressed.id))
    /\ UNCHANGED <<prefixToRig, rigToPrefix, started, session, identity, reparsed>>
    /\ UNCHANGED notCodecVars

\* ParseAddress on the addresses under test.
AddressNext ==
    \/ \E prefix \in ConfigPrefixes, rigName \in ConfigRigs :
           RegisterPrefix(prefix, rigName)
    \/ ClearRegistry
    \/ FinishStartup
    \/ GivenAddress
    \/ ParseAddressCall

\* The state an address run starts in.
AddressSpecInit ==
    CodecIdle /\ IdentityIdle /\ SlotInit /\ RegistryIdle /\ ToolsIdle

AddressSpec == AddressSpecInit /\ [][AddressNext]_vars

\* The two encodings together: a session name decoded and sent through the
\* address encoding, or an address decoded and sent through the session-name
\* encoding.
AgreementNext ==
    \/ \E prefix \in ConfigPrefixes, rigName \in ConfigRigs :
           RegisterPrefix(prefix, rigName)
    \/ ClearRegistry
    \/ FinishStartup
    \/ GivenAddress
    \/ SessionFirst
    \/ IdentityAddressCall
    \/ ParseAddressCall
    \/ AddressedSessionNameCall
    \/ ReparseCall

AgreementSpecInit ==
    CodecIdle /\ IdentityIdle /\ SlotInit /\ RegistryIdle /\ ToolsIdle

AgreementSpec == AgreementSpecInit /\ [][AgreementNext]_vars

(***************************************************************************)
(* Prefix registry under concurrent callers                                *)
(***************************************************************************)

\* The prefixes and rigs the callers register and look up.
RegistryPrefixes == {wGT, wBD}
RegistryRigs == {wGastown, wBeads}

RegistryNext ==
    \/ \E prefix \in RegistryPrefixes, rigName \in RegistryRigs :
           RegisterPrefixLock(prefix, rigName)
    \/ RegisterPrefixWritePrefix
    \/ RegisterPrefixWriteRig
    \/ ClearRegistryLock
    \/ ClearRegistryWritePrefix
    \/ ClearRegistryWriteRig
    \/ \E prefix \in RegistryPrefixes : RigForPrefixCall(prefix)
    \/ \E rigName \in RegistryRigs : PrefixForRigCall(rigName)
    \/ \E prefix \in RegistryPrefixes : IsKnownPrefixCall(prefix)
    \/ AllRegisteredPrefixes

\* The state a registry run starts in: both maps empty, the mutex free.
RegistrySpecInit ==
    RegistryIdle /\ CodecIdle /\ SlotInit /\ IdentityIdle /\ ToolsIdle

RegistrySpec == RegistrySpecInit /\ [][RegistryNext]_vars

(***************************************************************************)
(* Identity codec: claims                                                  *)
(***************************************************************************)

\* C9: session-name round trip at identity level.  For every identity x that
\* a successful ParseSessionName returned with a registered prefix,
\* ParseSessionName(x.SessionName()) succeeds and returns x again (the same
\* Role, Rig, Name and Prefix).
C9_RoundTripIdentity ==
    (reparsed.called /\ IsKnownPrefix(identity.id.Prefix)) =>
        /\ reparsed.ok
        /\ reparsed.id = identity.id

\* C10: session-name round trip at string level.  For every string s that
\* ParseSessionName accepts, registered prefix or not,
\* ParseSessionName(s).SessionName() is s.
C10_RoundTripString ==
    encoded.called => encoded.name = session

\* session begins with "hq-"; what follows.
TownName == Len(session) >= 3 /\ SubSeq(session, 1, 3) = <<"h", "q", "-">>
TownSuffix == SubSeq(session, 4, Len(session))

\* C17: for a session name that begins with "hq-", ParseSessionName returns
\* the mayor with no rig and no name for "hq-mayor", the deacon with no name
\* for "hq-deacon", the deacon named "boot" for "hq-boot", the mayor named
\* "overseer" for "hq-overseer", and a failure for every other suffix; the
\* registry plays no part, even when "hq" is a registered prefix.
C17_TownNames ==
    (identity.called /\ TownName) =>
        IF TownSuffix = wMayor
        THEN identity.ok /\ identity.id = AgentIdentity(RoleMayor, << >>, << >>, << >>)
        ELSE IF TownSuffix = wDeacon
        THEN identity.ok /\ identity.id = AgentIdentity(RoleDeacon, << >>, << >>, << >>)
        ELSE IF TownSuffix = wBoot
        THEN identity.ok /\ identity.id = AgentIdentity(RoleDeacon, << >>, wBoot, << >>)
        ELSE IF TownSuffix = wOverseer
        THEN identity.ok /\ identity.id = AgentIdentity(RoleMayor, << >>, wOverseer, << >>)
        ELSE ~identity.ok /\ identity.id = NilIdentity

\* "hq-boot" has been parsed while "hq" was a registered prefix.
C17_Witness ==
    /\ identity.called
    /\ session = <<"h", "q", "-", "b", "o", "o", "t">>
    /\ IsKnownPrefix(wHQ)
    /\ identity.id.Name = wBoot

\* Where the first hyphen of session is (1-based), 0 if there is none.
FirstHyphen ==
    IF \E i \in 1..Len(session) : session[i] = "-"
    THEN CHOOSE i \in 1..Len(session) :
             session[i] = "-" /\ \A j \in 1..(i - 1) : session[j] # "-"
    ELSE 0

SessionPrefix == SubSeq(session, 1, FirstHyphen - 1)
SessionRest == SubSeq(session, FirstHyphen + 1, Len(session))

\* C18: ParseSessionName of a well-formed name whose prefix is not
\* registered succeeds, with the Role and Name that the same remainder gets
\* under a registered prefix, an empty Rig, and the prefix as it was written.
C18_UnregisteredPrefix ==
    (/\ identity.called
     /\ ~TownName
     /\ FirstHyphen > 1
     /\ ~IsKnownPrefix(SessionPrefix)
     /\ IsKnownPrefix(wGT)
     /\ ParseSessionName(wGT \o <<"-">> \o SessionRest).ok)
        => LET known == ParseSessionName(wGT \o <<"-">> \o SessionRest).id IN
           /\ identity.ok
           /\ identity.id.Role = known.Role
           /\ identity.id.Name = known.Name
           /\ identity.id.Rig = << >>
           /\ identity.id.Prefix = SessionPrefix

\* "xyz-crew-max" has been parsed while "gt" was registered and "xyz" was not.
C18_Witness ==
    /\ identity.called
    /\ session = wXYZ \o <<"-">> \o wCrew \o <<"-">> \o wMax
    /\ IsKnownPrefix(wGT)
    /\ ~IsKnownPrefix(wXYZ)
    /\ identity.id.Role = RoleCrew

\* C19: ParseSessionName returns a failure, and no identity, for every name
\* that does not begin with "hq-" and has no hyphen, or starts with a hyphen,
\* or ends right after its first hyphen, or whose remainder is exactly "crew-".
C19_Malformed ==
    (/\ identity.called
     /\ ~TownName
     /\ \/ FirstHyphen = 0
        \/ FirstHyphen = 1
        \/ FirstHyphen = Len(session)
        \/ SessionRest = <<"c", "r", "e", "w", "-">>)
        => ~identity.ok /\ identity.id = NilIdentity

\* "gt-crew-" has been parsed.
C19_Witness ==
    /\ identity.called
    /\ session = <<"g", "t", "-", "c", "r", "e", "w", "-">>
    /\ ~identity.ok

\* The words of the grammar that a polecat's bare name must not be.
ReservedKeywords == {wCrew, wWitness, wRefinery, wBoot}

\* C20: ParseSessionName never returns a polecat whose Name is a reserved
\* keyword: a remainder such as "crew" alone ("gt-crew") is a parse failure.
C20_ReservedName ==
    (identity.called /\ identity.ok /\ identity.id.Role = RolePolecat)
        => identity.id.Name \notin ReservedKeywords

\* The remainder begins with the crew marker and a name follows it.
CrewRest ==
    Len(SessionRest) > 5 /\ SubSeq(SessionRest, 1, 5) = <<"c", "r", "e", "w", "-">>

\* The remainder is neither a keyword nor marked as crew.
PlainRest ==
    /\ SessionRest # << >>
    /\ SessionRest \notin ReservedKeywords
    /\ ~(Len(SessionRest) >= 5 /\ SubSeq(SessionRest, 1, 5) = <<"c", "r", "e", "w", "-">>)

\* C21: in ParseSessionName the prefix is exactly the text before the first
\* hyphen; a remainder that starts with "crew-" gives a crew member whose Name
\* is everything after the marker, further hyphens kept; any other
\* non-keyword remainder gives a polecat whose Name is the whole remainder,
\* hyphens included.
C21_NameSlicing ==
    (identity.called /\ ~TownName /\ FirstHyphen > 1) =>
        /\ identity.ok => identity.id.Prefix = SessionPrefix
        /\ CrewRest =>
               /\ identity.ok
               /\ identity.id.Role = RoleCrew
               /\ identity.id.Name = SubSeq(SessionRest, 6, Len(SessionRest))
        /\ PlainRest =>
               /\ identity.ok
               /\ identity.id.Role = RolePolecat
               /\ identity.id.Name = SessionRest

\* A crew name with a hyphen in it has been parsed.
C21_Witness ==
    /\ identity.called
    /\ ~TownName
    /\ CrewRest
    /\ identity.id.Role = RoleCrew
    /\ \E i \in 1..Len(identity.id.Name) : identity.id.Name[i] = "-"

\* The identity's project has a registered prefix, which the identity
\* carries; town-level identities have no project.  The overseer alias is
\* left out: it has a session and no address.
Addressable(x) ==
    \/ x.Role \in {RoleMayor, RoleDeacon} /\ x.Name # wOverseer
    \/ /\ x.Role \in {RoleWitness, RoleRefinery, RoleCrew, RolePolecat}
       /\ PrefixForRig(x.Rig) # << >>
       /\ x.Prefix = PrefixForRig(x.Rig)

\* C11: address round trip.  For every valid identity x whose project has a
\* registered prefix, and for the town-level roles, ParseAddress(x.Address())
\* succeeds and returns x again (the same Role, Rig, Name and Prefix).
C11_AddressRoundTrip ==
    (addressed.called /\ Addressable(subject)) =>
        /\ addressed.ok
        /\ addressed.id = subject

\* C12: session names are collision-free.  Two identities that differ in
\* Role, Prefix or Name never encode to the same SessionName().
C12_NoCollision ==
    (/\ subjectName.called
     /\ otherName.called
     /\ \/ subject.Role # other.Role
        \/ subject.Prefix # other.Prefix
        \/ subject.Name # other.Name)
        => subjectName.name # otherName.name

\* The segments of an address as it is read: blanks around it and one
\* trailing slash are dropped, then it is cut at every slash.
RECURSIVE SegmentsFromEnd(_)
SegmentsFromEnd(s) ==
    IF \A i \in 1..Len(s) : s[i] # "/" THEN <<s>>
    ELSE LET last == CHOOSE i \in 1..Len(s) :
                         s[i] = "/" /\ \A j \in (i + 1)..Len(s) : s[j] # "/"
         IN  Append(SegmentsFromEnd(SubSeq(s, 1, last - 1)),
                    SubSeq(s, last + 1, Len(s)))

AddressText == TrimSpace(address.name)

AddressSegments ==
    SegmentsFromEnd(IF AddressText # << >> /\ AddressText[Len(AddressText)] = "/"
                    THEN SubSeq(AddressText, 1, Len(AddressText) - 1)
                    ELSE AddressText)

AddressFails == ~addressed.ok /\ addressed.id = NilIdentity

\* ParseAddress returned this role, rig and name (the prefix is the registry's).
AddressGives(role, rig, name) ==
    /\ addressed.ok
    /\ addressed.id = AgentIdentity(role, rig, name, PrefixForRig(rig))

\* C22: ParseAddress follows the segment grammar.  "mayor", "mayor/",
\* "deacon", "deacon/" give the town roles; "overseer" fails; two segments
\* give the witness for "witness", the refinery for "refinery", a failure for
\* a bare "crew" or "polecats", and otherwise a polecat named by the second
\* segment; three segments give a crew member for the kind "crew", a polecat
\* for the kind "polecats" and a failure for any other kind; one segment, or
\* more than three, fails.
C22_SegmentGrammar ==
    addressed.called =>
        LET seg == AddressSegments IN
        IF AddressText \in {wMayor, wMayor \o <<"/">>}
        THEN addressed.ok /\ addressed.id = AgentIdentity(RoleMayor, << >>, << >>, << >>)
        ELSE IF AddressText \in {wDeacon, wDeacon \o <<"/">>}
        THEN addressed.ok /\ addressed.id = AgentIdentity(RoleDeacon, << >>, << >>, << >>)
        ELSE IF AddressText = wOverseer THEN AddressFails
        ELSE IF Len(seg) = 2
        THEN IF seg[2] = wWitness THEN AddressGives(RoleWitness, seg[1], << >>)
             ELSE IF seg[2] = wRefinery THEN AddressGives(RoleRefinery, seg[1], << >>)
             ELSE IF seg[2] \in {wCrew, wPolecats} THEN AddressFails
             ELSE AddressGives(RolePolecat, seg[1], seg[2])
        ELSE IF Len(seg) = 3
        THEN IF seg[2] = wCrew THEN AddressGives(RoleCrew, seg[1], seg[3])
             ELSE IF seg[2] = wPolecats THEN AddressGives(RolePolecat, seg[1], seg[3])
             ELSE AddressFails
        ELSE AddressFails

\* " gastown/max " has been parsed with "gastown" registered.
C22_Witness ==
    /\ addressed.called
    /\ address.name = <<" ">> \o wGastown \o <<"/">> \o wMax \o <<" ">>
    /\ addressed.id.Role = RolePolecat
    /\ addressed.id.Prefix # << >>

\* C24: ParseAddress never guesses.  Every identity it returns has a
\* non-empty Rig if it is a witness, refinery, crew member or polecat, and a
\* non-empty Name if it is a crew member or polecat; an address with an
\* empty rig segment or an empty name segment is a parse failure.
C24_NoGuess ==
    addressed.called =>
        /\ (addressed.ok
              /\ addressed.id.Role \in {RoleWitness, RoleRefinery, RoleCrew, RolePolecat})
               => addressed.id.Rig # << >>
        /\ (addressed.ok /\ addressed.id.Role \in {RoleCrew, RolePolecat})
               => addressed.id.Name # << >>
        /\ (\E i \in 1..Len(AddressSegments) : AddressSegments[i] = << >>)
               => AddressFails

\* What follows the prefix in the session name of a rig-level identity.
RoleTail(x) ==
    IF x.Role = RoleWitness THEN <<"-">> \o wWitness
    ELSE IF x.Role = RoleRefinery THEN <<"-">> \o wRefinery
    ELSE IF x.Role = RoleCrew THEN <<"-">> \o wCrew \o <<"-">> \o x.Name
    ELSE <<"-">> \o x.Name

\* C23: when a session name is encoded the identity's own non-empty Prefix
\* always wins: SessionName() uses it even if the registry maps the
\* identity's Rig to another prefix or to none, and uses PrefixForRig(Rig)
\* only when Prefix is empty and Rig is set.
C23_OwnPrefixWins ==
    (/\ subjectName.called
     /\ subject.Role \in {RoleWitness, RoleRefinery, RoleCrew, RolePolecat})
        => /\ subject.Prefix # << >>
               => subjectName.name = subject.Prefix \o RoleTail(subject)
           /\ (subject.Prefix = << >> /\ subject.Rig # << >>)
               => subjectName.name = PrefixForRig(subject.Rig) \o RoleTail(subject)

\* An identity with the prefix "gt" has been encoded while the registry maps
\* its rig to "hq".
C23_Witness ==
    /\ subjectName.called
    /\ subject.Role = RoleCrew
    /\ subject.Prefix = wGT
    /\ PrefixForRig(subject.Rig) = wHQ
    /\ subjectName.name = wGT \o <<"-">> \o wCrew \o <<"-">> \o subject.Name

\* C27: the two encodings agree on one identity.  With a registered prefix,
\* for every session name that ParseSessionName decodes to a rig-level or
\* unnamed town-level identity x, ParseAddress(x.Address()) returns x; and
\* for every accepted address a of a registered rig,
\* ParseSessionName(ParseAddress(a).SessionName()) returns ParseAddress(a).
C27_EncodingsAgree ==
    /\ (/\ identity.ok
        /\ addressed.called
        /\ \/ identity.id.Role \in {RoleMayor, RoleDeacon} /\ identity.id.Name = << >>
           \/ /\ identity.id.Role \in {RoleWitness, RoleRefinery, RoleCrew, RolePolecat}
              /\ IsKnownPrefix(identity.id.Prefix))
           => addressed.ok /\ addressed.id = identity.id
    /\ (/\ ~identity.called
        /\ addressed.ok
        /\ PrefixForRig(addressed.id.Rig) # << >>
        /\ reparsed.called)
           => reparsed.ok /\ reparsed.id = addressed.id

(***************************************************************************)
(* Prefix registry: claims                                                 *)
(***************************************************************************)

\* A RegisterPrefix call has assigned prefixToRig and not yet rigToPrefix.
HalfRegistered == regWriter.op = "RegisterPrefix" /\ regWriter.stage = "half"

\* C13: RegisterPrefix updates both directions atomically.  No lookup returns
\* while a RegisterPrefix(p, r) has written one direction and not the other,
\* and when RegisterPrefix(p, r) returns, RigForPrefix(p) is r and
\* PrefixForRig(r) is p.
C13_RegisterAtomic ==
    /\ lastRegCall.fn \in LookupFns => ~HalfRegistered
    /\ lastRegCall.fn = "RegisterPrefix" =>
           /\ RigForPrefix(lastRegCall.key) = lastRegCall.str
           /\ PrefixForRig(lastRegCall.str) = lastRegCall.key

\* A RegisterPrefix(p, r) has just returned that gave the rig r, registered
\* before under another prefix, the prefix p.
C13_Witness ==
    /\ lastRegCall.fn = "RegisterPrefix"
    /\ \E pr \in registered : pr[2] = lastRegCall.str /\ pr[1] # lastRegCall.key

\* C14: after any sequence of RegisterPrefix and ClearRegistry calls the two
\* directions are mutual inverses: for all non-empty p and r,
\* PrefixForRig(r) = p exactly when RigForPrefix(p) = r.
C14_MutualInverses ==
    CanRLock(regWriter) =>
        \A p \in RegistryPrefixes, r \in RegistryRigs :
            (PrefixForRig(r) = p) <=> (RigForPrefix(p) = r)

RegisteredPrefixes == {pr[1] : pr \in registered}
RegisteredRigs == {pr[2] : pr \in registered}

\* C15: a lookup of an unregistered key is not an error.  For a key that was
\* not registered since the last ClearRegistry, RigForPrefix and PrefixForRig
\* return the empty string and IsKnownPrefix returns false; and no lookup
\* changes the registry.
C15_UnregisteredLookup ==
    [][lastRegCall'.fn \in LookupFns =>
           /\ UNCHANGED <<prefixToRig, rigToPrefix>>
           /\ (lastRegCall'.fn = "RigForPrefix"
                   /\ lastRegCall'.key \notin RegisteredPrefixes)
                  => lastRegCall'.str = << >>
           /\ (lastRegCall'.fn = "PrefixForRig"
                   /\ lastRegCall'.key \notin RegisteredRigs)
                  => lastRegCall'.str = << >>
           /\ (lastRegCall'.fn = "IsKnownPrefix"
                   /\ lastRegCall'.key \notin RegisteredPrefixes)
                  => ~lastRegCall'.known]_vars

\* PrefixForRig has just returned "" for a rig that is not registered, while
\* another rig is.
C15_Witness ==
    /\ lastRegCall.fn = "PrefixForRig"
    /\ lastRegCall.key \notin RegisteredRigs
    /\ lastRegCall.str = << >>
    /\ registered # {}

\* C16: AllRegisteredPrefixes returns exactly the distinct prefixes registered
\* since the last ClearRegistry, each once: the prefixes for which
\* IsKnownPrefix is true.  Right after ClearRegistry it can only return the
\* empty list.
C16_AllRegisteredPrefixes ==
    /\ lastRegCall.fn = "AllRegisteredPrefixes" =>
           LET list == lastRegCall.list IN
           /\ \A i, j \in 1..Len(list) : list[i] = list[j] => i = j
           /\ {list[i] : i \in 1..Len(list)} = RegisteredPrefixes
           /\ {list[i] : i \in 1..Len(list)} =
                  {p \in RegistryPrefixes : IsKnownPrefix(p)}
    /\ lastRegCall.fn = "ClearRegistry" =>
           Orderings(DOMAIN prefixToRig) = {<< >>}

\* AllRegisteredPrefixes has just returned two prefixes that were registered
\* for the same rig.
C16_Witness ==
    /\ lastRegCall.fn = "AllRegisteredPrefixes"
    /\ Len(lastRegCall.list) = 2
    /\ Cardinality(RegisteredRigs) = 1

\* The state a merge-slot run starts in: a free slot, nothing called yet.
SlotSpecInit ==
    SlotInit /\ CodecIdle /\ RegistryIdle /\ IdentityIdle /\ ToolsIdle

SlotSpec == SlotSpecInit /\ [][SlotNext]_vars

(***************************************************************************)
(* Merge slot: claims                                                      *)
(***************************************************************************)

\* Worker w is the one whose call returned in this step.
Returned(op, w) == lastCall'.op = op /\ lastCall'.worker = w

Refused(holder) == MergeSlotStatus(MergeSlotID, FALSE, holder)
Granted(holder) == MergeSlotStatus(MergeSlotID, TRUE, holder)

\* C1: mutual exclusion.  In every reachable state at most one worker is
\* between a successful Acquire and its matching Release, and that worker's
\* token is the slot's one holder; nobody is in that window while the slot
\* is free.
C1_MutualExclusion ==
    /\ Cardinality(holding) <= 1
    /\ \A w \in holding : currentHolder = HolderToken(w)
    /\ currentHolder = "" => holding = {}

\* C1 witness: one worker holds the slot and another has just been refused.
C1_Witness ==
    /\ holding # {}
    /\ lastCall.op = "acquire"
    /\ lastCall.worker \notin holding
    /\ ~lastCall.status.Available

\* The workers that have called Acquire since the slot was last free.
Contenders == {w \in Workers : round[w] # {}}

\* C2: of the workers that call Acquire on the same free slot (before any
\* release), exactly one is granted it, and every other one is refused with
\* Holder equal to the token of the worker that was granted it.
C2_OneWinner ==
    Contenders # {} =>
        \E win \in Contenders :
            /\ Granted(HolderToken(win)) \in round[win]
            /\ \A w \in Contenders \ {win} :
                   round[w] = {Refused(HolderToken(win))}

\* C2 witness: two workers have called Acquire on the same free slot.
C2_Witness ==
    \E w1, w2 \in Contenders :
        /\ w1 # w2
        /\ Granted(HolderToken(w1)) \in round[w1]
        /\ round[w2] = {Refused(HolderToken(w1))}

\* C3: a Release by a worker whose token is not the current holder (the slot
\* is held by another token, or free) fails with holder mismatch and leaves
\* the slot as it was.
C3_ReleaseMismatch ==
    [][\A w \in Workers :
          (Returned("release", w) /\ currentHolder # HolderToken(w)) =>
              /\ lastCall'.err = ErrHolderMismatch
              /\ currentHolder' = currentHolder
              /\ holding' = holding]_vars

\* C3 witness: a third party's release has failed while the slot is held.
C3_Witness ==
    /\ lastCall.op = "release"
    /\ lastCall.err = ErrHolderMismatch
    /\ currentHolder # ""
    /\ currentHolder # HolderToken(lastCall.worker)

\* C4: an Acquire by h on a slot held by another token g returns
\* available=false with Holder g, and the slot stays held by g.
C4_AcquireHeld ==
    [][\A w \in Workers :
          (/\ Returned("acquire", w)
           /\ currentHolder # ""
           /\ currentHolder # HolderToken(w)) =>
              /\ lastCall'.status = Refused(currentHolder)
              /\ currentHolder' = currentHolder
              /\ holding' = holding]_vars

\* C4 witness: a worker that asked to be added as a waiter was refused while
\* another worker holds the slot.
C4_Witness ==
    /\ lastCall.op = "acquire"
    /\ lastCall.addWaiter
    /\ lastCall.status = Refused(currentHolder)
    /\ currentHolder # HolderToken(lastCall.worker)

\* C5: a Release by the holder succeeds and frees the slot, and the Acquire
\* that follows it, by any worker, is granted.
C5_ReleaseFrees ==
    [][/\ \A w \in Workers :
             (Returned("release", w) /\ currentHolder = HolderToken(w)) =>
                 /\ lastCall'.err = ErrNone
                 /\ currentHolder' = ""
                 /\ w \notin holding'
       /\ \A w \in Workers :
             (/\ lastCall.op = "release"
              /\ lastCall.err = ErrNone
              /\ Returned("acquire", w)) =>
                 /\ lastCall'.status = Granted(HolderToken(w))
                 /\ currentHolder' = HolderToken(w)]_vars

\* C5 witness: the holder's release has returned without error and the slot
\* is free for the next Acquire.
C5_Witness ==
    /\ lastCall.op = "release"
    /\ lastCall.err = ErrNone
    /\ currentHolder = ""
    /\ holding = {}

C7_AcquireNonBlocking ==
    [][/\ \A w \in Workers : ENABLED mergeSlotAcquire(w, TRUE)
       /\ \A w \in Workers :
             (Returned("acquire", w) /\ ~lastCall'.status.Available) =>
                 /\ currentHolder' = currentHolder
                 /\ holding' = holding
                 /\ slotID' = slotID]_vars

\* C7 witness: an Acquire without addWaiter has returned available=false.
C7_Witness ==
    /\ lastCall.op = "acquire"
    /\ ~lastCall.addWaiter
    /\ ~lastCall.status.Available
    /\ currentHolder # ""

\* C8: no timeout.  A held slot stays held by the same token through every
\* step but a Release by that token's worker, and until then every Acquire
\* is refused.
C8_NoTimeout ==
    [][currentHolder # "" =>
          \/ /\ currentHolder' = currentHolder
             /\ \A w \in Workers :
                    Returned("acquire", w) => ~lastCall'.status.Available
          \/ /\ currentHolder' = ""
             /\ \E w \in Workers :
                    /\ HolderToken(w) = currentHolder
                    /\ Returned("release", w)
                    /\ lastCall'.err = ErrNone]_vars

\* C8 witness: the slot is held and every other worker has been refused.
C8_Witness ==
    /\ currentHolder # ""
    /\ \A w \in Workers :
           HolderToken(w) # currentHolder =>
               round[w] = {Refused(currentHolder)}


\* The state a run of the store-backed slot starts in.
WaiterSpecInit ==
    SlotInit /\ CodecIdle /\ RegistryIdle /\ IdentityIdle /\ ToolsIdle

WaiterSpec == WaiterSpecInit /\ [][WaiterNext]_vars

C26_NotReentrant ==
    [][\A w \in Workers :
           /\ (Returned("acquire", w) /\ currentHolder = HolderToken(w))
                  => /\ lastCall'.status = Refused(HolderToken(w))
                     /\ currentHolder' = HolderToken(w)
           /\ (Returned("release", w) /\ currentHolder = HolderToken(w)
                   /\ lastCall.op = "acquire" /\ lastCall.worker = w
                   /\ lastCall.status = Refused(HolderToken(w)))
                  => /\ lastCall'.err = ErrNone
                     /\ currentHolder' = ""]_vars

\* The holder has just been refused the slot it holds.
C26_Witness ==
    /\ lastCall.op = "acquire"
    /\ lastCall.worker \in holding
    /\ lastCall.status = Refused(HolderToken(lastCall.worker))
    /\ currentHolder = HolderToken(lastCall.worker)


(***************************************************************************)
(* Agent bead IDs (internal/beads/beads.go).                               *)
(***************************************************************************)
wRigA == <<"r", "i", "g", Hyphen, "a">>
wPolecat == <<"p", "o", "l", "e", "c", "a", "t">>

\* AgentBeadIDWithPrefix(prefix, rig, role, name)
AgentBeadIDWithPrefix(prefix, rig, role, name) ==
    IF rig = wEmpty THEN prefix \o <<Hyphen>> \o role
    ELSE IF name = wEmpty THEN prefix \o <<Hyphen>> \o rig \o <<Hyphen>> \o role
    ELSE prefix \o <<Hyphen>> \o rig \o <<Hyphen>> \o role \o <<Hyphen>> \o name

\* AgentBeadID(rig, role, name)
AgentBeadID(rig, role, name) == AgentBeadIDWithPrefix(wGT, rig, role, name)

BeadParse(rig, role, name, ok) ==
    [called |-> TRUE, rig |-> rig, role |-> role, name |-> name, ok |-> ok]

\* ParseAgentBeadID(id)
ParseAgentBeadID(id) ==
    IF ~HasPrefix(id, wGT \o <<Hyphen>>) THEN BeadParse(wEmpty, wEmpty, wEmpty, FALSE)
    ELSE LET rest == TrimPrefix(id, wGT \o <<Hyphen>>)
             parts == Split(rest, Hyphen)
         IN  IF Len(parts) = 1 THEN BeadParse(wEmpty, parts[1], wEmpty, TRUE)
             ELSE IF Len(parts) = 2 THEN BeadParse(parts[1], parts[2], wEmpty, TRUE)
             ELSE IF Len(parts) = 3 THEN BeadParse(parts[1], parts[2], parts[3], TRUE)
             ELSE BeadParse(parts[1], parts[2],
                            JoinHyphen(SubSeq(parts, 3, Len(parts))), TRUE)

\* The arguments the callers pass: a town-level agent has neither rig nor
\* name, a rig-level singleton has no name, crew and polecats have both.
BeadRigs == {wGastown, wBeads, wXYZ, wRigA}
BeadNames == {wMax, wCrewMax, wWitness, wBoot}
TownBeadRoles == {wMayor, wDeacon}
SingletonBeadRoles == {wWitness, wRefinery}
NamedBeadRoles == {wCrew, wPolecat}
BeadArgs ==
    {[rig |-> wEmpty, role |-> r, name |-> wEmpty] : r \in TownBeadRoles}
    \cup {[rig |-> g, role |-> r, name |-> wEmpty] : g \in BeadRigs, r \in SingletonBeadRoles}
    \cup {[rig |-> g, role |-> r, name |-> n] :
              g \in BeadRigs, r \in NamedBeadRoles, n \in BeadNames}

ChooseBeadArgs ==
    /\ beadArgs = NoBeadArgs
    /\ \E a \in BeadArgs : beadArgs' = a
    /\ UNCHANGED <<beadID, beadParsed>>
    /\ UNCHANGED notBeadVars

AgentBeadIDCall ==
    /\ beadArgs # NoBeadArgs
    /\ ~beadID.called
    /\ beadID' = Encoded(AgentBeadID(beadArgs.rig, beadArgs.role, beadArgs.name))
    /\ UNCHANGED <<beadArgs, beadParsed>>
    /\ UNCHANGED notBeadVars

ParseAgentBeadIDCall ==
    /\ beadID.called
    /\ ~beadParsed.called
    /\ beadParsed' = ParseAgentBeadID(beadID.name)
    /\ UNCHANGED <<beadArgs, beadID>>
    /\ UNCHANGED notBeadVars

BeadNext ==
    \/ ChooseBeadArgs
    \/ AgentBeadIDCall
    \/ ParseAgentBeadIDCall

BeadSpecInit ==
    SlotInit /\ CodecIdle /\ RegistryIdle /\ IdentityIdle
    /\ ToolsIdle

BeadSpec == BeadSpecInit /\ [][BeadNext]_vars

\* C28: parsing the bead ID that AgentBeadID built from a rig, a role and a
\* name succeeds and gives back that rig, role and name, also when the name
\* contains hyphens and when the rig and the name are empty (town-level
\* agent) or the name alone is (singleton).
C28_BeadIDRoundTrip ==
    beadParsed.called =>
        /\ beadParsed.ok
        /\ beadParsed.rig = beadArgs.rig
        /\ beadParsed.role = beadArgs.role
        /\ beadParsed.name = beadArgs.name

(***************************************************************************)
(* "gt wl post" (internal/cmd/wl_post.go), one step per call that leaves   *)
(* the process.  wlSteps lists the calls made on the commons, in order,    *)
(* each with its outcome; wlErr is what runWlPost returns ("" for nil).    *)
(***************************************************************************)
validTypes == {"feature", "bug", "design", "rfc", "docs"}
validEfforts == {"trivial", "small", "medium", "large", "epic"}
MaxPriority == 4

\* The validation of runWlPost: the error it returns, "" when the flags pass.
ValidateWlPostNoPriority(in) ==
    IF in.type \notin validTypes THEN "invalid type"
    ELSE IF in.effort \notin validEfforts THEN "invalid effort"
    ELSE ""

ValidateWlPost(in) ==
    IF in.type \notin validTypes THEN "invalid type"
    ELSE IF in.effort \notin validEfforts THEN "invalid effort"
    ELSE IF in.priority < 0 \/ in.priority > MaxPriority THEN "invalid priority"
    ELSE ""

\* The flag values a caller may give.
WlTypes == {"feature", "docs", "chore"}
WlEfforts == {"medium", "epic", "huge"}
WlPriorities == (0 - 1)..(MaxPriority + 1)
WlInputs ==
    [type : WlTypes, effort : WlEfforts, priority : WlPriorities, dryRun : BOOLEAN]

WlStep(name, ok) == [name |-> name, ok |-> ok]

\* The command starts with the flags parsed.
WlPostStart ==
    /\ wlPC = "idle"
    /\ \E in \in WlInputs : wlInput' = in
    /\ wlPC' = "resolve"
    /\ UNCHANGED <<wlSteps, wlErr>>
    /\ UNCHANGED notWlVars

\* FindFromCwdOrError and GetTownHandle, either of which may fail.
WlResolveTown ==
    /\ wlPC = "resolve"
    /\ \E found \in BOOLEAN, handled \in BOOLEAN :
           IF ~found THEN wlErr' = "not in a Gas Town workspace" /\ wlPC' = "done"
           ELSE IF ~handled THEN wlErr' = "resolving town handle" /\ wlPC' = "done"
           ELSE wlErr' = wlErr /\ wlPC' = "validate"
    /\ UNCHANGED <<wlInput, wlSteps>>
    /\ UNCHANGED notWlVars

\* Validation, the INSERT statement, and the dry run's early return.
WlValidate ==
    /\ wlPC = "validate"
    /\ LET err == ValidateWlPost(wlInput) IN
       IF err # "" THEN wlErr' = err /\ wlPC' = "done"
       ELSE IF wlInput.dryRun THEN wlErr' = "" /\ wlPC' = "done"
       ELSE wlErr' = wlErr /\ wlPC' = "clone"
    /\ UNCHANGED <<wlInput, wlSteps>>
    /\ UNCHANGED notWlVars

\* Step 1: CloneCommons.  A failed clone returns before the cleanup is
\* deferred.
WlClone ==
    /\ wlPC = "clone"
    /\ \E ok \in BOOLEAN :
           /\ wlSteps' = Append(wlSteps, WlStep("clone", ok))
           /\ IF ok THEN wlErr' = wlErr /\ wlPC' = "insert"
              ELSE wlErr' = "cloning commons" /\ wlPC' = "done"
    /\ UNCHANGED wlInput
    /\ UNCHANGED notWlVars

\* Step 2: DoltSQL with the INSERT statement.
WlInsert ==
    /\ wlPC = "insert"
    /\ \E ok \in BOOLEAN :
           /\ wlSteps' = Append(wlSteps, WlStep("insert", ok))
           /\ IF ok THEN wlErr' = wlErr /\ wlPC' = "commit"
              ELSE wlErr' = "inserting wanted item" /\ wlPC' = "cleanup"
    /\ UNCHANGED wlInput
    /\ UNCHANGED notWlVars

\* Step 3: DoltCommit.
WlCommit ==
    /\ wlPC = "commit"
    /\ \E ok \in BOOLEAN :
           /\ wlSteps' = Append(wlSteps, WlStep("commit", ok))
           /\ IF ok THEN wlErr' = wlErr /\ wlPC' = "push"
              ELSE wlErr' = "committing" /\ wlPC' = "cleanup"
    /\ UNCHANGED wlInput
    /\ UNCHANGED notWlVars

\* Step 4: DoltPush, after which the function returns either way.
WlPush ==
    /\ wlPC = "push"
    /\ \E ok \in BOOLEAN :
           /\ wlSteps' = Append(wlSteps, WlStep("push", ok))
           /\ wlErr' = IF ok THEN wlErr ELSE "pushing to commons"
    /\ wlPC' = "cleanup"
    /\ UNCHANGED wlInput
    /\ UNCHANGED notWlVars

\* The deferred os.RemoveAll of the temporary clone, run on return.
WlCleanup ==
    /\ wlPC = "cleanup"
    /\ wlSteps' = Append(wlSteps, WlStep("cleanup", TRUE))
    /\ wlPC' = "done"
    /\ UNCHANGED <<wlInput, wlErr>>
    /\ UNCHANGED notWlVars

WlNext ==
    \/ WlPostStart
    \/ WlResolveTown
    \/ WlValidate
    \/ WlClone
    \/ WlInsert
    \/ WlCommit
    \/ WlPush
    \/ WlCleanup

WlSpecInit ==
    SlotInit /\ CodecIdle /\ RegistryIdle /\ IdentityIdle
    /\ ToolsIdle

WlSpec == WlSpecInit /\ [][WlNext]_vars

\* What the flags' help and the error messages call valid.
WlFlagsValid ==
    /\ wlInput.type \in {"feature", "bug", "design", "rfc", "docs"}
    /\ wlInput.effort \in {"trivial", "small", "medium", "large", "epic"}
    /\ wlInput.priority \in 0..4

WlOrder == <<"clone", "insert", "commit", "push">>

\* The calls on the commons other than the cleanup, in the order made.
WlWork == SelectSeq(wlSteps, LAMBDA s : s.name # "cleanup")

\* C29: with an invalid type, effort or priority runWlPost returns an error
\* and never clones, inserts, commits or pushes; a dry run makes none of
\* these calls either; otherwise the calls are clone, insert, commit, push in
\* that order, a failed call is the last of them, and once the clone has
\* succeeded the function does not return without having removed the
\* temporary clone, after its last call and exactly once.
C29_ValidateThenSteps ==
    /\ ~WlFlagsValid => /\ wlSteps = << >>
                        /\ wlPC = "done" => wlErr # ""
    /\ wlInput.dryRun => wlSteps = << >>
    /\ Len(WlWork) <= Len(WlOrder)
    /\ \A i \in 1..Len(WlWork) :
           /\ WlWork[i].name = WlOrder[i]
           /\ ~WlWork[i].ok => i = Len(WlWork)
    /\ (wlPC = "done" /\ wlSteps # << >> /\ wlSteps[1].ok) =>
           /\ wlSteps[Len(wlSteps)].name = "cleanup"
           /\ Len(wlSteps) = Len(WlWork) + 1
    /\ (wlPC = "done" /\ wlErr = "" /\ WlFlagsValid /\ ~wlInput.dryRun) =>
           /\ Len(WlWork) = Len(WlOrder)
           /\ \A i \in 1..Len(WlWork) : WlWork[i].ok

\* A run whose commit failed: clone and insert succeeded, no push, cleanup.
C29_Witness ==
    /\ wlPC = "done"
    /\ Len(wlSteps) = 4
    /\ wlSteps[3] = WlStep("commit", FALSE)
    /\ wlSteps[4].name = "cleanup"
    /\ wlErr = "committing"

(***************************************************************************)
(* Patrol receipts of package witness (BuildPatrolReceipt).                *)
(***************************************************************************)
PatrolVerdictStale == "stale"
PatrolVerdictOrphan == "orphan"
wInvestigate == <<"i", "n", "v", "e", "s", "t", "i", "g", "a", "t", "e">>
wNuke == <<"n", "u", "k", "e">>
wBeadRef == wGT \o <<Hyphen>> \o <<"a", "1">>

\* receiptVerdictForZombie(z)
receiptVerdictForZombieNoTrim(z) ==
    IF z.HookBead # wEmpty THEN PatrolVerdictStale
    ELSE IF z.AgentState = "working" \/ z.AgentState = "running" \/ z.AgentState = "spawning"
         THEN PatrolVerdictStale
    ELSE PatrolVerdictOrphan

receiptVerdictForZombie(z) ==
    IF TrimSpace(z.HookBead) # wEmpty THEN PatrolVerdictStale
    ELSE IF z.AgentState = "working" \/ z.AgentState = "running" \/ z.AgentState = "spawning"
         THEN PatrolVerdictStale
    ELSE PatrolVerdictOrphan

\* BuildPatrolReceipt(rigName, z); a nil Error is "".
BuildPatrolReceipt(rigName, z) ==
    LET trimmed == TrimSpace(z.Action)
        action == IF trimmed = wEmpty THEN wInvestigate ELSE trimmed
    IN  [called |-> TRUE,
         Rig |-> rigName,
         Polecat |-> z.PolecatName,
         Verdict |-> receiptVerdictForZombie(z),
         RecommendedAction |-> action,
         Evidence |-> [AgentState |-> z.AgentState, HookBead |-> z.HookBead,
                       BeadRecovered |-> z.BeadRecovered, Error |-> z.Error]]

\* The patrol results a receipt is asked for.
Blanks == <<" ">>
ZombieStates == {"", "idle", "working", "running", "spawning", "Working", "stuck"}
ZombieHooks == {wEmpty, Blanks, Blanks \o Blanks, wBeadRef, Blanks \o wBeadRef}
ZombieActions == {wEmpty, Blanks, wNuke, Blanks \o wNuke \o Blanks, wNuke \o Blanks \o wMax}
ZombieErrors == {"", "nuke failed"}
Zombies ==
    [PolecatName : {"atlas"}, AgentState : ZombieStates, HookBead : ZombieHooks,
     Action : ZombieActions, BeadRecovered : BOOLEAN, Error : ZombieErrors]

BuildPatrolReceiptCall ==
    /\ ~receipt.called
    /\ \E z \in Zombies :
           /\ zombie' = z
           /\ receipt' = BuildPatrolReceipt("gastown", z)
    /\ UNCHANGED notPatrolVars

PatrolNext == BuildPatrolReceiptCall

PatrolSpecInit ==
    SlotInit /\ CodecIdle /\ RegistryIdle /\ IdentityIdle
    /\ ToolsIdle

PatrolSpec == PatrolSpecInit /\ [][PatrolNext]_vars

\* A text is blank when it holds nothing but blanks; its trimmed form runs
\* from its first to its last character that is not a blank.
IsBlank(s) == \A i \in 1..Len(s) : s[i] = " "
NonBlankAt(s) == {i \in 1..Len(s) : s[i] # " "}
Trimmed(s) ==
    IF IsBlank(s) THEN << >>
    ELSE LET first == CHOOSE i \in NonBlankAt(s) : \A j \in NonBlankAt(s) : i <= j
             last == CHOOSE i \in NonBlankAt(s) : \A j \in NonBlankAt(s) : j <= i
         IN  [k \in 1..(last - first + 1) |-> s[first + k - 1]]

\* C30: the receipt's verdict is "stale" exactly when the zombie's HookBead
\* is not blank or its AgentState is "working", "running" or "spawning", and
\* "orphan" otherwise; its RecommendedAction is the zombie's Action without
\* the blanks around it, or "investigate" when the Action is blank.
C30_PatrolReceipt ==
    receipt.called =>
        /\ receipt.Verdict \in {"stale", "orphan"}
        /\ receipt.Verdict = "stale" <=>
               \/ ~IsBlank(zombie.HookBead)
               \/ zombie.AgentState \in {"working", "running", "spawning"}
        /\ receipt.RecommendedAction =
               IF IsBlank(zombie.Action) THEN wInvestigate ELSE Trimmed(zombie.Action)

\* A zombie whose HookBead is blanks only and whose Action is padded.
C30_Witness ==
    /\ receipt.called
    /\ zombie.HookBead = Blanks \o Blanks
    /\ zombie.AgentState = "idle"
    /\ receipt.Verdict = "orphan"
    /\ zombie.Action = Blanks \o wNuke \o Blanks
    /\ receipt.RecommendedAction = wNuke
====
